---- MODULE Spec2Model ----
(***************************************************************************)
(* Scorito Klassiekerspel 2026: scoring model, roster selector and         *)
(* captaincy strategist (optimizer.py, pcs_scraper.py).                     *)
(*                                                                         *)
(* Number representation.                                                  *)
(*   quality values      plain integers (0..10 when well formed)           *)
(*   race weights        tenths          (0.7 is 7)                        *)
(*   race scores         a record [val, under]: val is the exact value of  *)
(*                       (p*0.7 + s*0.3)*w in hundredths, under says that   *)
(*                       the IEEE-754 double the code computes lies just   *)
(*                       below val (see BelowExact)                        *)
(*   projected points    tenths of a point (28.0 is 280); every value the  *)
(*                       code produces is a multiple of 0.5, so sums of    *)
(*                       them are exact in doubles                         *)
(*   prices, budgets     integer currency units                            *)
(***************************************************************************)
EXTENDS Integers, Sequences, FiniteSets, TLC

VARIABLES df, call, ret, cache, pc, local, loads, writes, session_state

vars == <<df, call, ret, cache, pc, local, loads, writes, session_state>>

\* the state of the HTTP handlers
server == <<cache, pc, local, loads, writes>>

(***************************************************************************)
(* pcs_scraper.py: the event catalog                                       *)
(***************************************************************************)
RACE_ORDER ==
    << "omloop", "kuurne", "paris-nice", "tirreno", "strade-bianche",
       "milano-sanremo", "brugge", "e3", "gent-wevelgem", "dwars",
       "ronde-van-vlaanderen", "scheldeprijs", "paris-roubaix",
       "brabantse-pijl", "amstel", "fleche-wallonne", "luik" >>

RACE_DISPLAY_NAMES == { RACE_ORDER[i] : i \in 1..Len(RACE_ORDER) }

QualityMapping(p, s, w) == [primary |-> p, secondary |-> s, weight |-> w]

RACE_QUALITY_MAP ==
    [ race \in RACE_DISPLAY_NAMES |->
        CASE race = "omloop"               -> QualityMapping("cobbles", "hill", 7)
          [] race = "kuurne"               -> QualityMapping("sprint", "cobbles", 6)
          [] race = "paris-nice"           -> QualityMapping("gc", "climb", 3)
          [] race = "tirreno"              -> QualityMapping("gc", "climb", 3)
          [] race = "strade-bianche"       -> QualityMapping("hill", "punch", 7)
          [] race = "milano-sanremo"       -> QualityMapping("sprint", "punch", 6)
          [] race = "brugge"               -> QualityMapping("sprint", "cobbles", 4)
          [] race = "e3"                   -> QualityMapping("cobbles", "hill", 7)
          [] race = "gent-wevelgem"        -> QualityMapping("sprint", "cobbles", 6)
          [] race = "dwars"                -> QualityMapping("cobbles", "hill", 6)
          [] race = "ronde-van-vlaanderen" -> QualityMapping("cobbles", "hill", 9)
          [] race = "scheldeprijs"         -> QualityMapping("sprint", "None", 5)
          [] race = "paris-roubaix"        -> QualityMapping("cobbles", "None", 9)
          [] race = "brabantse-pijl"       -> QualityMapping("hill", "punch", 5)
          [] race = "amstel"               -> QualityMapping("hill", "punch", 7)
          [] race = "fleche-wallonne"      -> QualityMapping("punch", "climb", 7)
          [] race = "luik"                 -> QualityMapping("punch", "climb", 8) ]

QUALITIES == {"gc", "climb", "tt", "sprint", "punch", "hill", "cobbles"}

DEFAULT_BUDGET == 50000000

(***************************************************************************)
(* Helpers for pandas rows: a row is a record whose fields q and race are  *)
(* functions over the quality and race names the table has columns for.    *)
(***************************************************************************)
Get(f, key, default) == IF key \in DOMAIN f THEN f[key] ELSE default

RECURSIVE SumOver(_, _)
SumOver(f, seq) ==
    IF seq = << >> THEN 0 ELSE f[Head(seq)] + SumOver(f, Tail(seq))

(***************************************************************************)
(* optimizer.py: the scoring model                                         *)
(***************************************************************************)
\* Inputs at which the exact value of (p*0.7 + s*0.3)*w is a breakpoint of
\* the step function while its evaluation in IEEE-754 doubles falls one ulp
\* short of it: (3*0.7 + 3*0.3)*0.5 = 1.4999999999999998 and
\* (6*0.7 + 6*0.3)*0.5 = 2.9999999999999996.  For every other integer
\* p, s in -1..11 and every weight of the catalog the double is on the same
\* side of every breakpoint as the exact value.
BelowExact(p, s, w) == w = 5 /\ <<p, s>> \in {<<3, 3>>, <<6, 6>>}

Score(v, u) == [val |-> v, under |-> u]

ZeroScore == Score(0, FALSE)

\* score >= t and score <= 0 on doubles, t in hundredths
ScoreGe(score, t) == score.val > t \/ (score.val = t /\ ~score.under)
ScoreLe0(score) == score.val < 0 \/ score.val = 0

\* variant: the two quality weights applied the wrong way round
calculate_race_score_swapped(row, race) ==
    IF ~Get(row.race, race, FALSE) THEN ZeroScore
    ELSE LET mapping == RACE_QUALITY_MAP[race]
             primary_score == Get(row.q, mapping.primary, 0)
             secondary_score ==
                 IF mapping.secondary # "None"
                 THEN Get(row.q, mapping.secondary, 0) ELSE 0
         IN  Score((primary_score * 3 + secondary_score * 7) * mapping.weight, FALSE)

\* variant: the primary quality taken in full instead of at 70%
calculate_race_score_unweighted(row, race) ==
    IF ~Get(row.race, race, FALSE) THEN ZeroScore
    ELSE LET mapping == RACE_QUALITY_MAP[race]
             primary_score == Get(row.q, mapping.primary, 0)
             secondary_score ==
                 IF mapping.secondary # "None"
                 THEN Get(row.q, mapping.secondary, 0) ELSE 0
         IN  Score((primary_score * 10 + secondary_score * 3) * mapping.weight, FALSE)

calculate_race_score(row, race) ==
    IF ~Get(row.race, race, FALSE) THEN ZeroScore
    ELSE IF race \notin DOMAIN RACE_QUALITY_MAP THEN ZeroScore
    ELSE LET mapping == RACE_QUALITY_MAP[race]
             primary == mapping.primary
             secondary == mapping.secondary
             race_weight == mapping.weight
             primary_score == Get(row.q, primary, 0)
             secondary_score ==
                 IF secondary # "None" THEN Get(row.q, secondary, 0) ELSE 0
             \* quality_score in tenths
             quality_score == primary_score * 7 + secondary_score * 3
         IN  Score(quality_score * race_weight,
                   BelowExact(primary_score, secondary_score, race_weight))

\* avg_points * probability, probability in percent, result in tenths
Expected(avg_points, probability) == (avg_points * probability) \div 10

\* variant: the second tier entered with > instead of >=
calculate_expected_points_strict(row, race) ==
    LET score == calculate_race_score(row, race)
    IN  IF ScoreLe0(score) THEN 0
        ELSE IF ScoreGe(score, 700) THEN Expected(40, 70)
        ELSE IF score.val > 500 THEN Expected(30, 50)
        ELSE IF ScoreGe(score, 300) THEN Expected(20, 35)
        ELSE IF ScoreGe(score, 150) THEN Expected(10, 20)
        ELSE Expected(5, 10)

calculate_expected_points(row, race) ==
    LET score == calculate_race_score(row, race)
    IN  IF ScoreLe0(score) THEN 0
        ELSE IF ScoreGe(score, 700) THEN Expected(40, 70)
        ELSE IF ScoreGe(score, 500) THEN Expected(30, 50)
        ELSE IF ScoreGe(score, 300) THEN Expected(20, 35)
        ELSE IF ScoreGe(score, 150) THEN Expected(10, 20)
        ELSE Expected(5, 10)

calculate_total_expected_points(row) ==
    SumOver([race \in RACE_DISPLAY_NAMES |-> calculate_expected_points(row, race)],
            RACE_ORDER)

\* expected / price_m as the fraction num/den: num in tenths of a point,
\* den in currency units (price_m = price / 1 000 000)
Ratio(n, d) == [num |-> n, den |-> d]

\* variant: the division made without looking at the price
calculate_value_score_unguarded(row) ==
    Ratio(calculate_total_expected_points(row), row.price)

calculate_value_score(row) ==
    LET expected == calculate_total_expected_points(row)
    IN  IF row.price > 0 THEN Ratio(expected, row.price) ELSE Ratio(0, 1)

\* variant: the total taken over a column list that misses the first race
EnrichRow_short(row) ==
    LET exp == [race \in RACE_DISPLAY_NAMES |-> calculate_expected_points(row, race)]
    IN  [f \in DOMAIN row \cup {"exp", "exp_total", "value_score"} |->
            CASE f = "exp"         -> exp
              [] f = "exp_total"   -> SumOver(exp, Tail(RACE_ORDER))
              [] f = "value_score" -> calculate_value_score(row)
              [] OTHER             -> row[f]]

EnrichRow(row) ==
    LET exp == [race \in RACE_DISPLAY_NAMES |-> calculate_expected_points(row, race)]
    IN  [f \in DOMAIN row \cup {"exp", "exp_total", "value_score"} |->
            CASE f = "exp"         -> exp
              [] f = "exp_total"   -> SumOver(exp, RACE_ORDER)
              [] f = "value_score" -> calculate_value_score(row)
              [] OTHER             -> row[f]]

Ok(v) == [kind |-> "ok", value |-> v]
Raise(e) == [kind |-> "error", value |-> e]

\* row["price_m"] in calculate_value_score raises KeyError when the table
\* has no price column; nothing else in the pass validates a record
enrich_with_scores(table) ==
    IF \E i \in 1..Len(table) : "price" \notin DOMAIN table[i]
    THEN Raise("KeyError")
    ELSE Ok([i \in 1..Len(table) |-> EnrichRow(table[i])])

(***************************************************************************)
(* optimizer.py: the roster selector                                       *)
(***************************************************************************)
RECURSIVE SumTo(_, _)
SumTo(f, n) == IF n = 0 THEN 0 ELSE f[n] + SumTo(f, n - 1)

\* lpSum(select[i] * coef[i] for i in range(n)) under the assignment that
\* sets exactly the variables of X to 1
lpSum(coef, X) ==
    SumTo([i \in DOMAIN coef |-> IF i \in X THEN coef[i] ELSE 0], Len(coef))

LpConstraint(c, s, r) == [coef |-> c, sense |-> s, rhs |-> r]

Satisfies(X, con) ==
    IF con.sense = "==" THEN lpSum(con.coef, X) = con.rhs
    ELSE lpSum(con.coef, X) <= con.rhs

\* PULP_CBC_CMD on a binary maximisation problem: the assignments it can
\* leave in the variables.  An exact solver ends on some optimal feasible
\* assignment; on an infeasible problem solve() only records the status and
\* the variables hold whatever the solver wrote last, if anything.
Feasible(prob) ==
    { X \in SUBSET (1..prob.n) : \A k \in 1..Len(prob.constraints) :
                                     Satisfies(X, prob.constraints[k]) }

Solve(prob) ==
    LET feasible == Feasible(prob)
    IN  IF feasible = {} THEN SUBSET (1..prob.n)
        ELSE IF prob.sense = "LpMaximize"
        THEN { X \in feasible : \A Y \in feasible :
                   lpSum(prob.objective, Y) <= lpSum(prob.objective, X) }
        ELSE { X \in feasible : \A Y \in feasible :
                   lpSum(prob.objective, Y) >= lpSum(prob.objective, X) }

Ids(table) == { table[i].market_rider_id : i \in 1..Len(table) }

RowsWithId(table, rid) ==
    SelectSeq(table, LAMBDA r : r.market_rider_id = rid)

\* candidates[candidates["market_rider_id"] == rid].index
IndexOf(table, rid) ==
    { i \in 1..Len(table) : table[i].market_rider_id = rid }

Min(S) == CHOOSE x \in S : \A y \in S : x <= y

\* lines 147-150: add back the locked_in riders the filter dropped
RECURSIVE AddLockedIn(_, _, _)
AddLockedIn(candidates, locked_in, table) ==
    IF locked_in = << >> THEN candidates
    ELSE LET rid == Head(locked_in)
         IN  AddLockedIn(IF rid \notin Ids(candidates)
                         THEN candidates \o RowsWithId(table, rid)
                         ELSE candidates,
                         Tail(locked_in), table)

Unit(n, i) == [j \in 1..n |-> IF j = i THEN 1 ELSE 0]

\* variant: an id the candidates lack still gets its constraint, over no
\* variable
RECURSIVE LockConstraints_strict(_, _, _)
LockConstraints_strict(candidates, locked, value) ==
    IF locked = << >> THEN << >>
    ELSE LET idx == IndexOf(candidates, Head(locked))
             rest == LockConstraints_strict(candidates, Tail(locked), value)
         IN  IF idx # {}
             THEN << LpConstraint(Unit(Len(candidates), Min(idx)), "==", value) >> \o rest
             ELSE << LpConstraint(Unit(Len(candidates), 0), "==", value) >> \o rest

\* lines 175-184: one constraint select[idx[0]] == value per id the
\* candidates contain
RECURSIVE LockConstraints(_, _, _)
LockConstraints(candidates, locked, value) ==
    IF locked = << >> THEN << >>
    ELSE LET idx == IndexOf(candidates, Head(locked))
             rest == LockConstraints(candidates, Tail(locked), value)
         IN  IF idx # {}
             THEN << LpConstraint(Unit(Len(candidates), Min(idx)), "==", value) >> \o rest
             ELSE rest

\* variant: the locked_in riders the filter dropped are not added back
Candidates_filter_only(scored, locked_in) ==
    SelectSeq(scored, LAMBDA r : r.num_races > 0)

Candidates(scored, locked_in) ==
    AddLockedIn(SelectSeq(scored, LAMBDA r : r.num_races > 0), locked_in, scored)

\* variant: the budget constraint left out
LpProblem_no_budget(candidates, budget, team_size, locked_in, locked_out) ==
    LET n == Len(candidates)
    IN  [ n |-> n,
          sense |-> "LpMaximize",
          objective |-> [i \in 1..n |-> candidates[i].exp_total],
          constraints |->
              << LpConstraint([i \in 1..n |-> 1], "==", team_size) >>
              \o LockConstraints(candidates, locked_in, 1)
              \o LockConstraints(candidates, locked_out, 0) ]

\* variant: the problem created with LpMinimize
LpProblem_minimize(candidates, budget, team_size, locked_in, locked_out) ==
    LET n == Len(candidates)
    IN  [ n |-> n,
          sense |-> "LpMinimize",
          objective |-> [i \in 1..n |-> candidates[i].exp_total],
          constraints |->
              << LpConstraint([i \in 1..n |-> 1], "==", team_size),
                 LpConstraint([i \in 1..n |-> candidates[i].price], "<=", budget) >>
              \o LockConstraints(candidates, locked_in, 1)
              \o LockConstraints(candidates, locked_out, 0) ]

LpProblem(candidates, budget, team_size, locked_in, locked_out) ==
    LET n == Len(candidates)
    IN  [ n |-> n,
          sense |-> "LpMaximize",
          objective |-> [i \in 1..n |-> candidates[i].exp_total],
          constraints |->
              << LpConstraint([i \in 1..n |-> 1], "==", team_size),
                 LpConstraint([i \in 1..n |-> candidates[i].price], "<=", budget) >>
              \o LockConstraints(candidates, locked_in, 1)
              \o LockConstraints(candidates, locked_out, 0) ]

Injective(p) == \A i, j \in DOMAIN p : p[i] = p[j] => i = j

\* variant: the rows left in the order they came in
sort_values_desc_unsorted(rows, keys) == { rows }

\* DataFrame.sort_values(column, ascending=False), keys[i] being the column's
\* value in rows[i]: the rows in non-increasing key order; the default sort
\* kind promises no order among equal keys
sort_values_desc(rows, keys) ==
    LET k == Len(rows)
    IN  { [i \in 1..k |-> rows[p[i]]] :
            p \in { q \in [1..k -> 1..k] :
                      /\ Injective(q)
                      /\ \A i \in 1..(k - 1) : keys[q[i]] >= keys[q[i + 1]] } }

\* candidates.iloc[selected_indices]
RECURSIVE Iloc(_, _, _)
Iloc(rows, X, i) ==
    IF i > Len(rows) THEN << >>
    ELSE (IF i \in X THEN << rows[i] >> ELSE << >>) \o Iloc(rows, X, i + 1)

Columns(table) == IF table = << >> THEN {} ELSE DOMAIN table[1]

\* The set of values optimize_team can return
optimize_team(table, budget, team_size, locked_in, locked_out) ==
    LET enriched == IF "exp_total" \notin Columns(table)
                    THEN enrich_with_scores(table) ELSE Ok(table)
    IN  IF enriched.kind = "error" THEN { enriched }
        ELSE LET candidates == Candidates(enriched.value, locked_in)
                 prob == LpProblem(candidates, budget, team_size, locked_in, locked_out)
             IN  UNION { LET team == Iloc(candidates, X, 1)
                             IN  { Ok(sorted) :
                                     sorted \in sort_values_desc(team,
                                         [i \in 1..Len(team) |-> team[i].exp_total]) } :
                         X \in Solve(prob) }

(***************************************************************************)
(* Captaincy.  Multipliers are in tenths (3.0 = 30), base points in tenths *)
(* of a point and boosted points in hundredths; every projected-points     *)
(* value is a multiple of 0.5, so the floating-point products and sums of  *)
(* the code are exact.  An entry carries no name: the tables here have no  *)
(* name column.                                                            *)
(***************************************************************************)
KOPMAN_MULTIPLIERS == (1 :> 30) @@ (2 :> 25) @@ (3 :> 20)

\* variant: the fourth rider of a race is boosted like the third
KopmanEntry_four_boosted(rider, race, i) ==
    LET m == IF i <= 3 THEN KOPMAN_MULTIPLIERS[i] ELSE IF i = 4 THEN 20 ELSE 10
    IN  [ rank |-> i, market_rider_id |-> rider.market_rider_id,
          multiplier |-> m, base_points |-> rider.exp[race],
          boosted_points |-> rider.exp[race] * m ]

\* the dict built for the rider at position i (1-based) of the sorted frame:
\* the first loop serves i <= 3, the second the remaining riders
KopmanEntry(rider, race, i) ==
    IF i <= 3
    THEN [ rank |-> i, market_rider_id |-> rider.market_rider_id,
           multiplier |-> KOPMAN_MULTIPLIERS[i],
           base_points |-> rider.exp[race],
           boosted_points |-> rider.exp[race] * KOPMAN_MULTIPLIERS[i] ]
    ELSE [ rank |-> i, market_rider_id |-> rider.market_rider_id,
           multiplier |-> 10,
           base_points |-> rider.exp[race],
           boosted_points |-> rider.exp[race] * 10 ]

\* variant: only the three captains are listed
RaceAssignments_captains_only(team, race) ==
    LET racing == SelectSeq(team, LAMBDA r : r.race[race])
    IN  { [i \in 1..Min({3, Len(sorted)}) |-> KopmanEntry(sorted[i], race, i)] :
            sorted \in sort_values_desc(racing,
                          [i \in 1..Len(racing) |-> racing[i].exp[race]]) }

\* the lists strategy[race] can hold: one per order sort_values can return
RaceAssignments(team, race) ==
    LET racing == SelectSeq(team, LAMBDA r : r.race[race])
    IN  IF Len(racing) = 0 THEN { << >> }
        ELSE { [i \in 1..Len(sorted) |-> KopmanEntry(sorted[i], race, i)] :
                 sorted \in sort_values_desc(racing,
                               [i \in 1..Len(racing) |-> racing[i].exp[race]]) }

\* the strategies over the first n races of the catalog
RECURSIVE StrategiesUpTo(_, _)
StrategiesUpTo(team, n) ==
    IF n = 0 THEN { << >> }
    ELSE { s @@ (RACE_ORDER[n] :> a) :
             s \in StrategiesUpTo(team, n - 1),
             a \in RaceAssignments(team, RACE_ORDER[n]) }

\* The set of values calculate_kopman_strategy can return; a race whose
\* exp_ column is missing is skipped
calculate_kopman_strategy(team) ==
    IF team # << >> /\ "exp" \notin Columns(team) THEN { << >> }
    ELSE StrategiesUpTo(team, Len(RACE_ORDER))

RECURSIVE BoostedSum(_)
BoostedSum(riders) ==
    IF riders = << >> THEN 0
    ELSE Head(riders).boosted_points + BoostedSum(Tail(riders))

RECURSIVE SumRaces(_, _)
SumRaces(f, S) ==
    IF S = {} THEN 0
    ELSE LET x == CHOOSE y \in S : TRUE IN f[x] + SumRaces(f, S \ {x})

\* variant: only the three captains of each race are counted
calculate_team_total_with_kopmannen_captains(team, strategy) ==
    SumRaces([race \in DOMAIN strategy |->
                 BoostedSum(SubSeq(strategy[race], 1, Min({3, Len(strategy[race])})))],
             DOMAIN strategy)

\* in hundredths of a point
calculate_team_total_with_kopmannen(team, strategy) ==
    SumRaces([race \in DOMAIN strategy |-> BoostedSum(strategy[race])],
             DOMAIN strategy)

RECURSIVE ColumnSum(_, _)
ColumnSum(team, column) ==
    IF team = << >> THEN 0
    ELSE Head(team)[column] + ColumnSum(Tail(team), column)

\* variant: budget_remaining never drops below 0
get_team_summary_clamped(team, strategy) ==
    LET total_with_kopman == calculate_team_total_with_kopmannen(team, strategy)
        total_without == ColumnSum(team, "exp_total")
        left == DEFAULT_BUDGET - ColumnSum(team, "price")
    IN  [ team_size |-> Len(team),
          total_cost |-> ColumnSum(team, "price"),
          budget_remaining |-> IF left < 0 THEN 0 ELSE left,
          exp_points_without_kopman |-> total_without,
          exp_points_with_kopman |-> total_with_kopman,
          kopman_bonus |-> total_with_kopman - 10 * total_without,
          avg_races_per_rider |-> Ratio(ColumnSum(team, "num_races"), Len(team)) ]

\* exp_points_without_kopman is in tenths, exp_points_with_kopman and
\* kopman_bonus in hundredths; the mean of num_races is the fraction
\* sum/len (0/0 for an empty team, NaN in the code).  The _m fields repeat
\* total_cost and budget_remaining in millions.
get_team_summary(team, strategy) ==
    LET total_with_kopman == calculate_team_total_with_kopmannen(team, strategy)
        total_without == ColumnSum(team, "exp_total")
    IN  [ team_size |-> Len(team),
          total_cost |-> ColumnSum(team, "price"),
          budget_remaining |-> DEFAULT_BUDGET - ColumnSum(team, "price"),
          exp_points_without_kopman |-> total_without,
          exp_points_with_kopman |-> total_with_kopman,
          kopman_bonus |-> total_with_kopman - 10 * total_without,
          avg_races_per_rider |-> Ratio(ColumnSum(team, "num_races"), Len(team)) ]

(***************************************************************************)
(* Candidate tables.  load_enriched_data builds one row per rider, takes   *)
(* num_races from the sheet's count of the rider's races and sorts the     *)
(* table by price, highest first.                                          *)
(***************************************************************************)
Flags(S) == [race \in RACE_DISPLAY_NAMES |-> race \in S]

MakeRow(id, price, q, S) ==
    [ market_rider_id |-> id, price |-> price, num_races |-> Cardinality(S),
      q |-> q, race |-> Flags(S) ]

\* a row of a table that has no price column
WithoutPrice(row) == [f \in DOMAIN row \ {"price"} |-> row[f]]

\* a row of a table that has no column for quality d
WithoutQuality(row, d) ==
    [row EXCEPT !.q = [x \in DOMAIN row.q \ {d} |-> row.q[x]]]

COBBLED == { "omloop", "kuurne", "brugge", "e3", "gent-wevelgem", "dwars",
             "ronde-van-vlaanderen", "scheldeprijs", "paris-roubaix" }

RaceSetsScore == { {}, RACE_DISPLAY_NAMES, COBBLED, RACE_DISPLAY_NAMES \ COBBLED }

\* Two ways of spreading two quality values p and s over the dimensions;
\* between them every race of the catalog sees p as its primary and s as
\* its secondary quality.
PatternA == {"cobbles", "gc", "punch", "tt"}
PatternB == {"sprint", "hill", "gc"}

Spread(A, p, s) == [d \in QUALITIES |-> IF d \in A THEN p ELSE s]

MaxQuality == 10

WellFormedRows ==
    { MakeRow(1, 10000000, Spread(A, p, s), S) :
        A \in {PatternA, PatternB}, p \in 0..MaxQuality, s \in 0..MaxQuality,
        S \in RaceSetsScore }

MalformedRows ==
    { MakeRow(1, 10000000, Spread(A, p, s), RACE_DISPLAY_NAMES) :
        A \in {PatternA, PatternB},
        p \in {-1, 5, MaxQuality + 1}, s \in {-1, MaxQuality + 1} }
    \cup { MakeRow(1, price, Spread(PatternA, MaxQuality, 5), COBBLED) :
             price \in {0, -10000000} }
    \cup { WithoutPrice(MakeRow(1, 10000000, Spread(PatternA, 5, 5), COBBLED)) }
    \cup { WithoutQuality(MakeRow(1, 10000000, Spread(PatternA, MaxQuality, 5), COBBLED), d) :
             d \in {"cobbles", "hill"} }

\* what section 3 and section 7 of the specification require of a record
WellFormed(row) ==
    /\ "price" \in DOMAIN row
    /\ row.price > 0
    /\ DOMAIN row.q = QUALITIES
    /\ \A d \in QUALITIES : row.q[d] \in 0..MaxQuality

NoCall == [op |-> "none", args |-> << >>]
NoRet == [kind |-> "none", value |-> << >>]

\* no request in service: _cache = {}, every handler thread idle with no
\* local df, request or response; loads and writes count the load-and-score
\* passes and the stores into _cache["riders"] made so far
\* handler threads of one process
NumThreads == 2

Threads == 1..NumThreads

EmptyCache == << >>

NoLocals == [df |-> << >>, request |-> << >>, response |-> NoRet]

\* st.session_state of a session that has clicked nothing yet
NoSession == << >>

ServerIdle ==
    /\ cache = EmptyCache
    /\ pc = [t \in Threads |-> "idle"]
    /\ local = [t \in Threads |-> NoLocals]
    /\ loads = 0
    /\ writes = 0

(***************************************************************************)
(* The scoring model applied to one record: the record is drawn in the     *)
(* initial state and one of the functions is applied to it.                *)
(***************************************************************************)
InitScore ==
    /\ df \in { << row >> : row \in WellFormedRows \cup MalformedRows }
    /\ call = NoCall
    /\ ret = NoRet
    /\ ServerIdle
    /\ session_state = NoSession

CalcRaceScore ==
    \E race \in RACE_DISPLAY_NAMES :
        /\ call = NoCall
        /\ call' = [op |-> "calculate_race_score", args |-> [race |-> race]]
        /\ ret' = Ok(calculate_race_score(df[1], race))
        /\ UNCHANGED <<df, server, session_state>>

CalcExpectedPoints ==
    \E race \in RACE_DISPLAY_NAMES :
        /\ call = NoCall
        /\ call' = [op |-> "calculate_expected_points", args |-> [race |-> race]]
        /\ ret' = Ok(calculate_expected_points(df[1], race))
        /\ UNCHANGED <<df, server, session_state>>

CalcTotalExpectedPoints ==
    /\ call = NoCall
    /\ call' = [op |-> "calculate_total_expected_points", args |-> << >>]
    /\ ret' = Ok(calculate_total_expected_points(df[1]))
    /\ UNCHANGED <<df, server, session_state>>

CalcValueScore ==
    /\ call = NoCall
    /\ call' = [op |-> "calculate_value_score", args |-> << >>]
    /\ ret' = IF "price" \in DOMAIN df[1]
              THEN Ok(calculate_value_score(df[1])) ELSE Raise("KeyError")
    /\ UNCHANGED <<df, server, session_state>>

\* variant: the columns are added to the caller's frame, df.copy() left out
EnrichWithScores_inplace ==
    /\ call = NoCall
    /\ call' = [op |-> "enrich_with_scores", args |-> << >>]
    /\ ret' = enrich_with_scores(df)
    /\ df' = IF ret'.kind = "ok" THEN ret'.value ELSE df
    /\ UNCHANGED <<server, session_state>>

EnrichWithScores ==
    /\ call = NoCall
    /\ call' = [op |-> "enrich_with_scores", args |-> << >>]
    /\ ret' = enrich_with_scores(df)
    /\ UNCHANGED <<df, server, session_state>>

\* a second pass over the table the first pass was given
EnrichAgain ==
    /\ call = [op |-> "enrich_with_scores", args |-> << >>]
    /\ call' = [op |-> "enrich_with_scores", args |-> [run |-> 2]]
    /\ ret' = enrich_with_scores(df)
    /\ UNCHANGED <<df, server, session_state>>

NextScore ==
    \/ CalcRaceScore
    \/ CalcExpectedPoints
    \/ CalcTotalExpectedPoints
    \/ CalcValueScore
    \/ EnrichWithScores
    \/ EnrichAgain

SpecScore == InitScore /\ [][NextScore]_vars

(***************************************************************************)
(* The roster selector applied to a table of NumRiders riders: the table   *)
(* is drawn in the initial state and one request is served on it.          *)
(***************************************************************************)
NumRiders == 3
MaxTeamSize == 2
MaxLocks == 1

PRICES == {10000000, 30000000}
BUDGETS == {25000000, 45000000}

\* participation sets worth 0, 15 and 50 points to a rider whose qualities
\* are all MaxQuality
RaceSetsSelect ==
    { {}, {"kuurne"}, {"ronde-van-vlaanderen", "kuurne", "brugge"} }

TopQuality == Spread(QUALITIES, MaxQuality, MaxQuality)

\* the end-to-end example of section 8: prices 30M/15M/10M, projected
\* points 50/30/15
ExampleTable ==
    << MakeRow(1, 30000000, TopQuality, {"ronde-van-vlaanderen", "kuurne", "brugge"}),
       MakeRow(2, 15000000, TopQuality, {"kuurne", "milano-sanremo"}),
       MakeRow(3, 10000000, TopQuality, {"kuurne"}) >>

Tables ==
    { [i \in 1..NumRiders |-> MakeRow(i, pf[i], TopQuality, rf[i])] :
        pf \in { f \in [1..NumRiders -> PRICES] :
                   \A i \in 1..(NumRiders - 1) : f[i] >= f[i + 1] },
        rf \in [1..NumRiders -> RaceSetsSelect] }
    \cup { ExampleTable }

\* ids a request can name: those of the table and one the table lacks
RequestIds == 1..(NumRiders + 1)

\* locked_in: any list of ids, repeats included; locked_out: the lists in
\* increasing order
LockInLists ==
    UNION { [1..k -> RequestIds] : k \in 0..MaxLocks }

LockOutLists ==
    { l \in LockInLists : \A i \in 1..(Len(l) - 1) : l[i] < l[i + 1] }

\* api/optimize.py and app.py hand optimize_team the table that
\* enrich_with_scores returned
ScoredTables == { enrich_with_scores(table).value : table \in Tables }

InitSelect ==
    /\ df \in ScoredTables
    /\ call = NoCall
    /\ ret = NoRet
    /\ ServerIdle
    /\ session_state = NoSession

OptimizeTeam ==
    /\ call = NoCall
    /\ \E budget \in BUDGETS, team_size \in 0..MaxTeamSize,
          locked_in \in LockInLists, locked_out \in LockOutLists :
        /\ call' = [op |-> "optimize_team",
                    args |-> [budget |-> budget, team_size |-> team_size,
                              locked_in |-> locked_in, locked_out |-> locked_out]]
        /\ ret' \in optimize_team(df, budget, team_size, locked_in, locked_out)
        /\ UNCHANGED <<df, server, session_state>>

NextSelect == OptimizeTeam

SpecSelect == InitSelect /\ [][NextSelect]_vars


(***************************************************************************)
(* Captaincy applied to a roster of at most MaxRoster riders: rows of a    *)
(* scored table in table order (price descending), ids by position.        *)
(***************************************************************************)
MaxRoster == 4

RaceSetsKopman == { {}, {"kuurne"}, {"kuurne", "ronde-van-vlaanderen"} }

\* rider classes: price and the value of every quality
RiderClasses ==
    { << 30000000, MaxQuality >>, << 10000000, MaxQuality >>, << 10000000, 4 >> }

Rosters ==
    UNION { { [i \in 1..k |-> MakeRow(i, cf[i][1],
                                      Spread(QUALITIES, cf[i][2], cf[i][2]), rf[i])] :
                cf \in { f \in [1..k -> RiderClasses] :
                           \A i \in 1..(k - 1) : f[i][1] >= f[i + 1][1] },
                rf \in [1..k -> RaceSetsKopman] } : k \in 0..MaxRoster }

ScoredRosters == { enrich_with_scores(team).value : team \in Rosters }

InitKopman ==
    /\ df \in ScoredRosters
    /\ call = NoCall
    /\ ret = NoRet
    /\ ServerIdle
    /\ session_state = NoSession

CalcKopmanStrategy ==
    /\ call = NoCall
    /\ call' = [op |-> "calculate_kopman_strategy", args |-> << >>]
    /\ ret' \in { Ok(strategy) : strategy \in calculate_kopman_strategy(df) }
    /\ UNCHANGED <<df, server, session_state>>

GetTeamSummary ==
    /\ call = NoCall
    /\ \E strategy \in calculate_kopman_strategy(df) :
        /\ call' = [op |-> "get_team_summary", args |-> [strategy |-> strategy]]
        /\ ret' = Ok(get_team_summary(df, strategy))
        /\ UNCHANGED <<df, server, session_state>>

NextKopman ==
    \/ CalcKopmanStrategy
    \/ GetTeamSummary

SpecKopman == InitKopman /\ [][NextKopman]_vars

(***************************************************************************)
(* The HTTP handlers of api/.  NumThreads requests can be in service at    *)
(* once in one process; each runs get_riders and then optimize_team,       *)
(* calculate_kopman_strategy and get_team_summary on the table it got.     *)
(* df is the table load_enriched_data returns, cache the module's _cache   *)
(* dict, local[t] the local variables of the request thread t serves.      *)
(* Between two steps of a thread any other thread may run: the test of     *)
(* line 24, the pass of lines 25-26, the store of line 27 and the read of  *)
(* line 28 are separate steps.                                             *)
(***************************************************************************)
\* team_size is left at optimize_team's default, which stands at
\* MaxTeamSize for tables of this size
DefaultTeamSize == MaxTeamSize

ApiTables ==
    { ExampleTable,
      << MakeRow(1, 30000000, TopQuality, {"ronde-van-vlaanderen", "kuurne", "brugge"}),
         MakeRow(2, 10000000, TopQuality, {"kuurne"}),
         MakeRow(3, 10000000, TopQuality, {}) >> }

\* the query strings: budget, locked_in and locked_out
ApiRequests ==
    [ budget : BUDGETS, locked_in : { << >>, << 3 >> },
      locked_out : { << >>, << 1 >> } ]

\* what do_GET of api/optimize.py computes from the table get_riders
\* returned: the roster, its captaincy strategy and its summary
Responses(table, request) ==
    UNION { IF r.kind = "error" THEN { r }
            ELSE { Ok([ team |-> r.value, strategy |-> strategy,
                        summary |-> get_team_summary(r.value, strategy) ]) :
                     strategy \in calculate_kopman_strategy(r.value) } :
            r \in optimize_team(table, request.budget, DefaultTeamSize,
                                request.locked_in, request.locked_out) }

InitApi ==
    /\ df \in ApiTables
    /\ call = NoCall
    /\ ret = NoRet
    /\ ServerIdle
    /\ session_state = NoSession

\* a request arrives: do_GET calls get_riders
Begin(t) ==
    /\ pc[t] = "idle"
    /\ pc' = [pc EXCEPT ![t] = "check"]
    /\ UNCHANGED << session_state, df, call, ret, cache, local, loads, writes >>

\* line 24: if "riders" not in _cache
Check(t) ==
    /\ pc[t] = "check"
    /\ pc' = [pc EXCEPT ![t] = IF "riders" \in DOMAIN cache THEN "return" ELSE "load"]
    /\ UNCHANGED << session_state, df, call, ret, cache, local, loads, writes >>

\* lines 25-26: the load-and-score pass, into the local df
Load(t) ==
    /\ pc[t] = "load"
    /\ LET scored == enrich_with_scores(df)
       IN  IF scored.kind = "ok"
           THEN /\ local' = [local EXCEPT ![t].df = scored.value]
                /\ pc' = [pc EXCEPT ![t] = "store"]
           ELSE /\ local' = [local EXCEPT ![t].response = scored]
                /\ pc' = [pc EXCEPT ![t] = "done"]
    /\ loads' = loads + 1
    /\ UNCHANGED << session_state, df, call, ret, cache, writes >>

\* line 27: _cache["riders"] = df
Store(t) ==
    /\ pc[t] = "store"
    /\ cache' = [riders |-> local[t].df]
    /\ writes' = writes + 1
    /\ pc' = [pc EXCEPT ![t] = "return"]
    /\ UNCHANGED << session_state, df, call, ret, local, loads >>

\* line 28: return _cache["riders"]
Return(t) ==
    /\ pc[t] = "return"
    /\ local' = [local EXCEPT ![t].df = cache.riders]
    /\ pc' = [pc EXCEPT ![t] = "serve"]
    /\ UNCHANGED << session_state, df, call, ret, cache, loads, writes >>

\* variant: the zero-race filter applied to the shared table itself
Serve_inplace(t) ==
    /\ pc[t] = "serve"
    /\ \E request \in ApiRequests :
          /\ \E response \in Responses(local[t].df, request) :
                local' = [local EXCEPT ![t].request = request,
                                       ![t].response = response]
          /\ cache' = [riders |-> Candidates(local[t].df, request.locked_in)]
    /\ pc' = [pc EXCEPT ![t] = "done"]
    /\ UNCHANGED << session_state, df, call, ret, loads, writes >>

\* api/optimize.py lines 35-44: the query is parsed and the request served
\* from the table get_riders returned
Serve(t) ==
    /\ pc[t] = "serve"
    /\ \E request \in ApiRequests :
          \E response \in Responses(local[t].df, request) :
              local' = [local EXCEPT ![t].request = request,
                                     ![t].response = response]
    /\ pc' = [pc EXCEPT ![t] = "done"]
    /\ UNCHANGED << session_state, df, call, ret, cache, loads, writes >>

\* the response is sent and the thread is free for the next request
Finish(t) ==
    /\ pc[t] = "done"
    /\ pc' = [pc EXCEPT ![t] = "idle"]
    /\ local' = [local EXCEPT ![t] = NoLocals]
    /\ UNCHANGED << session_state, df, call, ret, cache, loads, writes >>

NextApi ==
    \E t \in Threads :
        \/ Begin(t)
        \/ Check(t)
        \/ Load(t)
        \/ Store(t)
        \/ Return(t)
        \/ Serve(t)
        \/ Finish(t)

SpecApi == InitApi /\ [][NextApi]_vars

(***************************************************************************)
(* The Streamlit dashboard, one browser session.  df is the table          *)
(* load_data returns (scored), session_state the session's                 *)
(* st.session_state dict; every action is one click, with the script run   *)
(* it triggers, and call names the click.  The search box is the input     *)
(* that puts a rider's row, and with it that rider's button, on the page.  *)
(***************************************************************************)
\* prices 30M/25M/10M with the races of the example, and a table whose
\* three riders all cost 30M
AppTables ==
    { ExampleTable,
      << MakeRow(1, 30000000, TopQuality, {"ronde-van-vlaanderen", "kuurne", "brugge"}),
         MakeRow(2, 25000000, TopQuality, {"kuurne", "milano-sanremo"}),
         MakeRow(3, 10000000, TopQuality, {"kuurne"}) >>,
      << MakeRow(1, 30000000, TopQuality, {"ronde-van-vlaanderen", "kuurne"}),
         MakeRow(2, 30000000, TopQuality, {"kuurne"}),
         MakeRow(3, 30000000, TopQuality, {}) >> }

\* positions of the budget slider: its ends and its default
SliderBudgets == { 40000000, DEFAULT_BUDGET, 55000000 }

Click(op, args) == [op |-> op, args |-> args]

\* d[key] = value on a dict
SetItem(d, key, value) ==
    [k \in DOMAIN d \cup {key} |-> IF k = key THEN value ELSE d[k]]

\* list.remove(x): the first occurrence goes
RECURSIVE ListRemove(_, _)
ListRemove(list, x) ==
    IF list = << >> THEN << >>
    ELSE IF Head(list) = x THEN Tail(list)
    ELSE << Head(list) >> \o ListRemove(Tail(list), x)

InList(x, list) == \E i \in 1..Len(list) : list[i] = x

\* df[df["market_rider_id"].isin(team_ids)]
IsIn(table, team_ids) ==
    SelectSeq(table, LAMBDA r : InList(r.market_rider_id, team_ids))

\* opt_team["market_rider_id"].tolist()
IdList(team) == [i \in 1..Len(team) |-> team[i].market_rider_id]

InitApp ==
    /\ df \in { enrich_with_scores(table).value : table \in AppTables }
    /\ call = NoCall
    /\ ret = NoRet
    /\ ServerIdle
    /\ session_state = NoSession

\* Optimaal Team page, button "Optimaliseer Team"
OptimaliseerTeam ==
    \E budget \in SliderBudgets :
        \E r \in optimize_team(df, budget, DefaultTeamSize, << >>, << >>) :
            /\ r.kind = "ok"
            /\ \E strategy \in calculate_kopman_strategy(r.value) :
                  session_state' =
                      SetItem(SetItem(SetItem(session_state,
                          "opt_team", r.value),
                          "opt_strategy", strategy),
                          "opt_summary", get_team_summary(r.value, strategy))
            /\ call' = Click("Optimaliseer Team", [budget |-> budget])
            /\ UNCHANGED << df, ret, server >>

\* the Team Builder page is opened for the first time
OpenTeamBuilder ==
    /\ "manual_team_ids" \notin DOMAIN session_state
    /\ session_state' = SetItem(session_state, "manual_team_ids", << >>)
    /\ call' = Click("Team Builder", << >>)
    /\ UNCHANGED << df, ret, server >>

\* variant: the button is offered whether or not the rider is in the team
Toevoegen_always(rid) ==
    /\ "manual_team_ids" \in DOMAIN session_state
    /\ rid \in Ids(df)
    /\ session_state' = SetItem(session_state, "manual_team_ids",
                                Append(session_state.manual_team_ids, rid))
    /\ call' = Click("Toevoegen", [rid |-> rid])
    /\ UNCHANGED << df, ret, server >>

\* button "Toevoegen" of a rider's row, shown when the rider is not in the
\* team
Toevoegen(rid) ==
    /\ "manual_team_ids" \in DOMAIN session_state
    /\ rid \in Ids(df)
    /\ ~InList(rid, session_state.manual_team_ids)
    /\ session_state' = SetItem(session_state, "manual_team_ids",
                                Append(session_state.manual_team_ids, rid))
    /\ call' = Click("Toevoegen", [rid |-> rid])
    /\ UNCHANGED << df, ret, server >>

\* button "Verwijder" of a rider's row, shown when the rider is in the team
Verwijder(rid) ==
    /\ "manual_team_ids" \in DOMAIN session_state
    /\ rid \in Ids(df)
    /\ InList(rid, session_state.manual_team_ids)
    /\ session_state' = SetItem(session_state, "manual_team_ids",
                                ListRemove(session_state.manual_team_ids, rid))
    /\ call' = Click("Verwijder", [rid |-> rid])
    /\ UNCHANGED << df, ret, server >>

\* button "Laad optimaal team", on the page while the team has a member
LaadOptimaalTeam ==
    /\ "manual_team_ids" \in DOMAIN session_state
    /\ Len(IsIn(df, session_state.manual_team_ids)) > 0
    /\ "opt_team" \in DOMAIN session_state
    /\ session_state' = SetItem(session_state, "manual_team_ids",
                                IdList(session_state.opt_team))
    /\ call' = Click("Laad optimaal team", << >>)
    /\ UNCHANGED << df, ret, server >>

\* button "Wis team", on the page while the id list is not empty
WisTeam ==
    /\ "manual_team_ids" \in DOMAIN session_state
    /\ session_state.manual_team_ids # << >>
    /\ session_state' = SetItem(session_state, "manual_team_ids", << >>)
    /\ call' = Click("Wis team", << >>)
    /\ UNCHANGED << df, ret, server >>

NextApp ==
    \/ OptimaliseerTeam
    \/ OpenTeamBuilder
    \/ \E rid \in Ids(df) : Toevoegen(rid)
    \/ \E rid \in Ids(df) : Verwijder(rid)
    \/ LaadOptimaalTeam
    \/ WisTeam

SpecApp == InitApp /\ [][NextApp]_vars

(***************************************************************************)
(* Vocabulary of the selection claims, stated over rider ids and the       *)
(* scored table instead of over the solver's variables                     *)
(***************************************************************************)
IsOptimize == call.op = "optimize_team"

Request == call.args

\* the scored table a request is served on
Scored == df

Range(seq) == { seq[i] : i \in 1..Len(seq) }

ForcedInclude == Range(Request.locked_in)
ForcedExclude == Range(Request.locked_out)

RowOf(id) == CHOOSE r \in Range(Scored) : r.market_rider_id = id

RECURSIVE SetSum(_, _)
SetSum(f, S) ==
    IF S = {} THEN 0
    ELSE LET x == CHOOSE y \in S : TRUE IN f[x] + SetSum(f, S \ {x})

PriceOfIds(S) == SetSum([id \in S |-> RowOf(id).price], S)
PointsOfIds(S) == SetSum([id \in S |-> RowOf(id).exp_total], S)

Participations(row) == Cardinality({ race \in DOMAIN row.race : row.race[race] })

\* candidates with at least one participation plus the forced-includes
EligiblePool ==
    { id \in Ids(Scored) : Participations(RowOf(id)) > 0 }
        \cup (ForcedInclude \cap Ids(Scored))

HonoursRequest(S) ==
    /\ Cardinality(S) = Request.team_size
    /\ PriceOfIds(S) <= Request.budget
    /\ ForcedInclude \subseteq S
    /\ S \cap ForcedExclude = {}

FeasibleRosters == { S \in SUBSET EligiblePool : HonoursRequest(S) }

IsFeasible == FeasibleRosters # {}

Returned == ret.kind = "ok"

Team == ret.value
TeamIds == Ids(Team)
TeamPrice == SumTo([i \in 1..Len(Team) |-> Team[i].price], Len(Team))
TeamPoints == SumTo([i \in 1..Len(Team) |-> Team[i].exp_total], Len(Team))

\* C1: for a feasible request the returned roster has exactly team_size
\* members, costs at most the budget, contains every forced-include id and
\* no forced-exclude id.
C1_RosterHonoursRequest ==
    (IsOptimize /\ IsFeasible) =>
        /\ Returned
        /\ Len(Team) = Request.team_size
        /\ Cardinality(TeamIds) = Request.team_size
        /\ TeamPrice <= Request.budget
        /\ ForcedInclude \subseteq TeamIds
        /\ TeamIds \cap ForcedExclude = {}

C1_Witness ==
    /\ IsOptimize /\ IsFeasible /\ Returned
    /\ Request.team_size = MaxTeamSize
    /\ ForcedInclude # {} /\ ForcedExclude # {}
    /\ \E S \in SUBSET EligiblePool :
          /\ Cardinality(S) = Request.team_size
          /\ PriceOfIds(S) > Request.budget

\* C2: for a feasible request the roster's total projected points is the
\* maximum over the feasible rosters drawn from the eligible pool; on the
\* three-rider example (30M/15M/10M worth 50/30/15, two riders, 45M) the
\* roster is {1,2} with 80 points.
IsExample ==
    /\ Len(df) = 3
    /\ [i \in 1..3 |-> Scored[i].price] = << 30000000, 15000000, 10000000 >>
    /\ [i \in 1..3 |-> Scored[i].exp_total] = << 500, 300, 150 >>
    /\ IsOptimize
    /\ Request.team_size = 2 /\ Request.budget = 45000000
    /\ Request.locked_in = << >> /\ Request.locked_out = << >>

C2_RosterIsOptimal ==
    /\ (IsOptimize /\ IsFeasible) =>
          /\ Returned
          /\ TeamIds \in FeasibleRosters
          /\ \A S \in FeasibleRosters : PointsOfIds(S) <= TeamPoints
    /\ IsExample => (Returned /\ TeamIds = {1, 2} /\ TeamPoints = 800)

C2_Witness == IsExample /\ Returned /\ TeamIds = {1, 2}

\* C3: an infeasible request fails with an Infeasible-Selection error and
\* returns no roster.
C3_InfeasibleFails ==
    (IsOptimize /\ ~IsFeasible) => ret.kind = "error"

\* C4: team_size = 0, or a pool that is empty after filtering, is reported
\* as infeasible instead of returning an empty roster.
C4_EmptySelectionFails ==
    (IsOptimize /\ (Request.team_size = 0 \/ EligiblePool = {})) =>
        ~(Returned /\ Team = << >>)

\* C5: a rider without participations has 0 total projected points, is in
\* no returned roster unless forced-included, and is in the roster when
\* forced-included.
C5_ZeroParticipation ==
    (IsOptimize /\ Returned) =>
        \A id \in Ids(Scored) :
            Participations(RowOf(id)) = 0 =>
                /\ RowOf(id).exp_total = 0
                /\ id \in TeamIds <=> id \in ForcedInclude

(***************************************************************************)
(* Vocabulary of the scoring claims                                        *)
(***************************************************************************)
Row == df[1]

IsRaceScore == call.op = "calculate_race_score"
IsExpectedPoints == call.op = "calculate_expected_points"
IsEnrich == call.op = "enrich_with_scores"

HasAllQualities(row) == DOMAIN row.q = QUALITIES

\* a <= b on doubles
ScoreLeq(a, b) == a.val < b.val \/ (a.val = b.val /\ (a.under \/ ~b.under))

\* the step function of section 4.1, points in tenths
StepPoints(score) ==
    CASE ScoreGe(score, 700)                           -> 280
      [] ScoreGe(score, 500) /\ ~ScoreGe(score, 700)   -> 150
      [] ScoreGe(score, 300) /\ ~ScoreGe(score, 500)   -> 70
      [] ScoreGe(score, 150) /\ ~ScoreGe(score, 300)   -> 20
      [] score.val > 0 /\ ~ScoreGe(score, 150)         -> 5
      [] score.val = 0                                 -> 0

\* every (race_score, projected points) pair a full-catalog rider with
\* qualities in 0..MaxQuality produces
ScorePointPairs ==
    { << calculate_race_score(row, race), calculate_expected_points(row, race) >> :
        row \in { r \in WellFormedRows : r.num_races = Len(RACE_ORDER) },
        race \in RACE_DISPLAY_NAMES }

\* C6: calculate_expected_points is the step function 28.0 / 15.0 / 7.0 /
\* 2.0 / 0.5 / 0.0 of race_score with breakpoints 7, 5, 3, 1.5 and 0, and
\* it is monotonically non-decreasing in race_score.
C6_StepFunction ==
    (IsExpectedPoints /\ calculate_race_score(Row, call.args.race).val >= 0) =>
        LET score == calculate_race_score(Row, call.args.race)
        IN  /\ ret.value = StepPoints(score)
            /\ \A sp \in ScorePointPairs :
                  /\ ScoreLeq(sp[1], score) => sp[2] <= ret.value
                  /\ ScoreLeq(score, sp[1]) => ret.value <= sp[2]

C6_Witness ==
    /\ IsExpectedPoints
    /\ calculate_race_score(Row, call.args.race) = Score(500, FALSE)
    /\ ret.value = 150

\* C7: for a rider with qualities in 0..10 every per-event projected points
\* value lies in [0, 28.0] and exp_total is exactly their sum over the
\* catalog.
C7_PointsBoundedAndSummed ==
    (IsEnrich /\ WellFormed(Row)) =>
        /\ ret.kind = "ok"
        /\ \A i \in 1..Len(ret.value) :
              /\ \A race \in RACE_DISPLAY_NAMES :
                    ret.value[i].exp[race] \in 0..280
              /\ ret.value[i].exp_total =
                    SetSum(ret.value[i].exp, RACE_DISPLAY_NAMES)

C7_Witness ==
    /\ IsEnrich /\ WellFormed(Row) /\ ret.kind = "ok"
    /\ Row.num_races = Len(RACE_ORDER)
    /\ ret.value[1].exp["omloop"] = 280
    /\ ret.value[1].exp["paris-nice"] = 70
    /\ ret.value[1].exp_total > 280

\* C8 as stated: race_score lies in [0, 7].
C8_ScoreAtMost7 ==
    (IsRaceScore /\ WellFormed(Row)) => ret.value.val \in 0..700

\* C8 amended: race_score lies in [0, 10 * weight], so in [0, 9] for the
\* catalog, whose largest weight is 0.9.
C8_ScoreAtMost9 ==
    (IsRaceScore /\ WellFormed(Row)) =>
        /\ ret.value.val \in 0..900
        /\ ret.value.val <= 100 * RACE_QUALITY_MAP[call.args.race].weight

C8_Witness ==
    /\ IsRaceScore /\ WellFormed(Row)
    /\ call.args.race = "ronde-van-vlaanderen"
    /\ ret.value.val = 900

\* C9: calculate_race_score is 0 for a race the rider does not ride and
\* (primary*0.7 + secondary*0.3) * weight for one the rider rides, the
\* secondary term being 0 for a race without secondary dimension.  (val is
\* the value of the formula; the double the code returns is that value
\* rounded.)
C9_RaceScoreFormula ==
    (IsRaceScore /\ HasAllQualities(Row)) =>
        LET race == call.args.race
            mapping == RACE_QUALITY_MAP[race]
            secondary_term ==
                IF mapping.secondary = "None" THEN 0
                ELSE 3 * Row.q[mapping.secondary]
        IN  IF Row.race[race]
            THEN ret.value.val =
                     (7 * Row.q[mapping.primary] + secondary_term) * mapping.weight
            ELSE ret.value = ZeroScore

C9_Witness ==
    /\ IsRaceScore /\ HasAllQualities(Row)
    /\ call.args.race = "paris-roubaix"
    /\ Row.race["paris-roubaix"]
    /\ Row.q["cobbles"] = 10 /\ Row.q["hill"] = 4
    /\ ret.value.val = 630

\* C10: enrich_with_scores reports a Malformed-Input error for a record
\* with a missing field, a quality outside [0,10] or a price <= 0.
C10_MalformedRejected ==
    (IsEnrich /\ ~WellFormed(Row)) => ret.kind = "error"

(***************************************************************************)
(* Value score, roster order and the zero-participation filter             *)
(***************************************************************************)
IsValueScore == call.op = "calculate_value_score"

\* C11: the value score is the total projected points divided by the price
\* in millions when the price is positive, and 0, without a division, when
\* the price is 0.  (A value score is the fraction num/den, num in tenths of
\* a point and den in currency units.)
C11_ValueScore ==
    /\ (IsValueScore /\ "price" \in DOMAIN Row /\ Row.price >= 0) =>
          /\ ret.kind = "ok"
          /\ IF Row.price > 0
             THEN /\ ret.value.num =
                        SetSum([race \in RACE_DISPLAY_NAMES |->
                                   calculate_expected_points(Row, race)],
                               RACE_DISPLAY_NAMES)
                  /\ ret.value.den = Row.price
             ELSE ret.value.num = 0 /\ ret.value.den # 0
    /\ (IsEnrich /\ ret.kind = "ok" /\ Row.price >= 0) =>
          /\ ret.value[1].value_score.den # 0
          /\ ret.value[1].value_score.num =
                IF Row.price > 0 THEN ret.value[1].exp_total ELSE 0

C11_Witness ==
    /\ IsValueScore
    /\ "price" \in DOMAIN Row
    /\ Row.price = 0
    /\ calculate_total_expected_points(Row) > 0
    /\ ret = Ok(Ratio(0, 1))

\* C17: the members of the returned roster are in non-increasing order of
\* total projected points.
C17_RosterSorted ==
    (IsOptimize /\ Returned) =>
        \A i \in 1..(Len(Team) - 1) : Team[i].exp_total >= Team[i + 1].exp_total

C17_Witness ==
    /\ IsOptimize /\ Returned
    /\ Len(Team) = 2
    /\ Team[1].exp_total > Team[2].exp_total
    /\ Team[1].price < Team[2].price

\* rosters drawn from the full table, zero-participation riders included
FullTableRosters == { S \in SUBSET Ids(Scored) : HonoursRequest(S) }

\* C19 as stated: whenever the full table contains a roster that honours
\* the request, optimize_team returns a roster whose total projected points
\* is the maximum over those rosters.
C19_FilterLosesNothing ==
    (IsOptimize /\ FullTableRosters # {}) =>
        /\ Returned
        /\ TeamIds \in FullTableRosters
        /\ \A S \in FullTableRosters : PointsOfIds(S) <= TeamPoints

\* C19 amended: the guarantee covers the rosters whose members all ride at
\* least one race or are forced-included: whenever the full table contains
\* such a roster, optimize_team returns one with the maximum total among
\* them.
C19_OptimalAmongEligible ==
    (IsOptimize /\ \E S \in FullTableRosters : S \subseteq EligiblePool) =>
        /\ Returned
        /\ TeamIds \in FullTableRosters
        /\ TeamIds \subseteq EligiblePool
        /\ \A S \in FullTableRosters :
              S \subseteq EligiblePool => PointsOfIds(S) <= TeamPoints

C19_Witness ==
    /\ IsOptimize /\ Returned
    /\ Request.team_size = MaxTeamSize
    /\ TeamIds \in FullTableRosters
    /\ \E id \in TeamIds : Participations(RowOf(id)) = 0
    /\ \E id \in Ids(Scored) \ TeamIds : Participations(RowOf(id)) = 0

(***************************************************************************)
(* Vocabulary of the captaincy claims                                      *)
(***************************************************************************)
IsKopman == call.op = "calculate_kopman_strategy"
IsSummary == call.op = "get_team_summary"

\* the strategy a captaincy state is about
StrategyOf == IF IsKopman THEN ret.value ELSE call.args.strategy

\* the rows of the roster that ride the race
Participants(race) == { i \in 1..Len(df) : df[i].race[race] }

\* every (race, position) of the strategy
EntriesOf(strategy) ==
    UNION { { << race, i >> : i \in 1..Len(strategy[race]) } :
              race \in DOMAIN strategy }

RankMultiplier(rank) ==
    CASE rank = 1 -> 30 [] rank = 2 -> 25 [] rank = 3 -> 20 [] OTHER -> 10

\* the orders in which the rows of a table can be given
RowOrders(team) ==
    { [i \in 1..Len(team) |-> team[p[i]]] :
        p \in { q \in [1..Len(team) -> 1..Len(team)] : Injective(q) } }

RankToId(assignment) ==
    [i \in 1..Len(assignment) |-> assignment[i].market_rider_id]

\* C12: in every per-event assignment rank 1 has multiplier 3.0, rank 2
\* has 2.5, rank 3 has 2.0 and every rank from 4 on has 1.0, tied
\* participants included, and boosted_points is base_points times the
\* multiplier (multipliers in tenths, boosted points in hundredths).
C12_Multipliers ==
    IsKopman =>
        \A race \in DOMAIN ret.value :
            \A i \in 1..Len(ret.value[race]) :
                LET e == ret.value[race][i]
                IN  /\ e.multiplier = RankMultiplier(e.rank)
                    /\ e.boosted_points = e.base_points * e.multiplier

C12_Witness ==
    /\ IsKopman
    /\ \E race \in DOMAIN ret.value :
          /\ Len(ret.value[race]) >= 4
          /\ ret.value[race][3].base_points = ret.value[race][4].base_points
          /\ ret.value[race][3].base_points > 0
          /\ ret.value[race][3].multiplier = 20
          /\ ret.value[race][4].multiplier = 10
          /\ ret.value[race][4].rank = 4

\* C13: the assignment list of an event holds exactly the roster members
\* that ride it, each once, with ranks 1..k in list order and base points
\* non-increasing; it is empty when nobody rides, and then the event adds
\* nothing to the season total.
C13_AssignmentLists ==
    /\ IsKopman =>
          /\ DOMAIN ret.value = RACE_DISPLAY_NAMES
          /\ \A race \in RACE_DISPLAY_NAMES :
                LET a == ret.value[race]
                IN  /\ { a[i].market_rider_id : i \in 1..Len(a) } =
                          { df[i].market_rider_id : i \in Participants(race) }
                    /\ Len(a) = Cardinality(Participants(race))
                    /\ \A i \in 1..Len(a) :
                          /\ a[i].rank = i
                          /\ a[i].base_points =
                                RowOf(a[i].market_rider_id).exp[race]
                    /\ \A i \in 1..(Len(a) - 1) :
                          a[i].base_points >= a[i + 1].base_points
                    /\ (Participants(race) = {} => a = << >>)
    /\ IsSummary =>
          LET ridden == { e \in EntriesOf(StrategyOf) : Participants(e[1]) # {} }
          IN  ret.value.exp_points_with_kopman =
                 SetSum([e \in ridden |-> StrategyOf[e[1]][e[2]].boosted_points],
                        ridden)

C13_Witness ==
    /\ IsKopman
    /\ \E race \in RACE_DISPLAY_NAMES : ret.value[race] = << >>
    /\ \E race \in RACE_DISPLAY_NAMES :
          /\ Len(ret.value[race]) >= 2
          /\ Len(ret.value[race]) < Len(df)
          /\ ret.value[race][1].base_points > ret.value[race][2].base_points
          /\ ret.value[race][1].market_rider_id > ret.value[race][2].market_rider_id

\* C14: the rank-to-rider assignment of an event is the same for every row
\* order of the same roster, tied riders included.
C14_TieOrderDeterministic ==
    IsKopman =>
        \A team \in RowOrders(df) :
            \A strategy \in calculate_kopman_strategy(team) :
                \A race \in RACE_DISPLAY_NAMES :
                    RankToId(strategy[race]) = RankToId(ret.value[race])

\* C15: the season total with captaincy is the sum of boosted_points over
\* every entry of every assignment list; kopman_bonus is that total minus
\* the sum of the members' exp_total, which for a scored roster is the sum
\* of base_points * (multiplier - 1) over all entries and never negative
\* (totals with captaincy and bonus in hundredths, exp_total in tenths).
C15_TotalAndBonus ==
    IsSummary =>
        LET entries == EntriesOf(StrategyOf)
            entry(e) == StrategyOf[e[1]][e[2]]
            boosted == SetSum([e \in entries |-> entry(e).boosted_points], entries)
            members == 1..Len(df)
            without == SetSum([i \in members |-> df[i].exp_total], members)
        IN  /\ ret.value.exp_points_with_kopman = boosted
            /\ ret.value.exp_points_without_kopman = without
            /\ ret.value.kopman_bonus = boosted - 10 * without
            /\ ret.value.kopman_bonus =
                  SetSum([e \in entries |->
                             entry(e).base_points * (entry(e).multiplier - 10)],
                         entries)
            /\ ret.value.kopman_bonus >= 0

C15_Witness ==
    /\ IsSummary
    /\ ret.value.kopman_bonus > 0
    /\ ret.value.exp_points_with_kopman > ret.value.kopman_bonus
    /\ \E race \in DOMAIN StrategyOf : Len(StrategyOf[race]) >= 4

FirstCached == enrich_with_scores(df).value

\* C18: in any interleaving of get_riders calls the load-and-score pass
\* runs at most once and _cache["riders"] is written at most once, and a
\* call that returned holds the cached table.
C18_CachePopulatedOnce ==
    /\ loads <= 1
    /\ writes <= 1
    /\ \A t \in Threads : pc[t] = "serve" => local[t].df = cache.riders

\* C20: serving optimize requests leaves the cached table as it was first
\* cached, whatever budgets and lock sets the requests carry, and the
\* response to a request is one that its own parameters yield on that
\* table.
C20_CachedTableUnchanged ==
    [][ /\ df' = df
        /\ cache # EmptyCache => cache' = cache
        /\ "riders" \in DOMAIN cache' => cache'.riders = FirstCached
        /\ \A t \in Threads :
              (pc[t] = "serve" /\ pc'[t] = "done") =>
                  local'[t].response \in Responses(FirstCached, local'[t].request)
      ]_vars

C20_Witness ==
    /\ cache = [riders |-> FirstCached]
    /\ \E t, u \in Threads :
          /\ pc[t] = "done" /\ pc[u] = "done"
          /\ local[t].request # local[u].request
          /\ local[t].request.locked_in = << 3 >>
          /\ local[t].response.kind = "ok"
          /\ \E i \in 1..Len(local[t].response.value.team) :
                /\ local[t].response.value.team[i].market_rider_id = 3
                /\ local[t].response.value.team[i].num_races = 0
          /\ local[u].response.kind = "ok"
          /\ Len(local[u].response.value.team) = DefaultTeamSize

\* the ids of a lock list that the table has a row for
KnownIds(locked) == SelectSeq(locked, LAMBDA id : id \in Ids(Scored))

HasUnknownId ==
    KnownIds(Request.locked_in) # Request.locked_in
        \/ KnownIds(Request.locked_out) # Request.locked_out

IsOptimaliseer == call.op = "Optimaliseer Team"

HasOptimal == "opt_summary" \in DOMAIN session_state

OptimalPrice ==
    LET members == 1..Len(session_state.opt_team)
    IN  SetSum([i \in members |-> session_state.opt_team[i].price], members)

\* C21: the summary's budget_remaining is DEFAULT_BUDGET minus the roster's
\* total price whatever budget the roster was selected with: it is negative
\* when the roster costs more than DEFAULT_BUDGET, and for a budget below
\* DEFAULT_BUDGET it is more than the budget leaves.
C21_BudgetRemaining ==
    /\ HasOptimal =>
          /\ session_state.opt_summary.total_cost = OptimalPrice
          /\ session_state.opt_summary.budget_remaining =
                DEFAULT_BUDGET - OptimalPrice
          /\ OptimalPrice > DEFAULT_BUDGET =>
                session_state.opt_summary.budget_remaining < 0
    /\ (IsOptimaliseer /\ call.args.budget < DEFAULT_BUDGET) =>
          session_state.opt_summary.budget_remaining >
              call.args.budget - OptimalPrice

C21_Witness ==
    /\ IsOptimaliseer
    /\ call.args.budget > DEFAULT_BUDGET
    /\ Len(session_state.opt_team) = DefaultTeamSize
    /\ OptimalPrice <= call.args.budget
    /\ session_state.opt_summary.budget_remaining < 0

HasManualTeam == "manual_team_ids" \in DOMAIN session_state

ManualIds == session_state.manual_team_ids

\* team_cost of the Team Builder page
ManualCost ==
    LET rows == { i \in 1..Len(df) : InList(df[i].market_rider_id, ManualIds) }
    IN  SetSum([i \in rows |-> df[i].price], rows)

\* C23: whatever was added, removed, cleared or loaded, the manual team id
\* list holds no id twice, and every rider of the table that is not in the
\* list can be added, whatever the size and the cost of the team.
C23_TeamBuilder ==
    HasManualTeam =>
        /\ \A i, j \in 1..Len(ManualIds) : ManualIds[i] = ManualIds[j] => i = j
        /\ \A rid \in Ids(df) :
              ~InList(rid, ManualIds) => ENABLED Toevoegen(rid)

\* a team of more members than the roster size (20 on the page, here
\* DefaultTeamSize) that costs more than DEFAULT_BUDGET
C23_Witness ==
    /\ HasManualTeam
    /\ call.op = "Toevoegen"
    /\ Len(ManualIds) > DefaultTeamSize
    /\ ManualCost > DEFAULT_BUDGET
    /\ "opt_team" \in DOMAIN session_state

====
